---- MODULE Spec2Model ----
(***************************************************************************)
(* Model of movie_recommender_spark.py: the main script's control flow,    *)
(* the seeded train/test split, the hyperparameter search of               *)
(* train_als_with_tuning and the explode/left-join reshaping of the        *)
(* recommendation helpers.                                                 *)
(***************************************************************************)
EXTENDS Bags, FiniteSets, Integers, Sequences, TLC

VARIABLES
    pc,               \* position of the main script
    ratingsFile,      \* data/ratings.csv: "missing", "malformed" or "ok"
    moviesFile,       \* data/movies.csv:  "missing", "malformed" or "ok"
    modelDirWritable, \* whether models/als_movie_model can be written
    nRatings,         \* ratings.count()
    trainCount,       \* train.count()
    testCount,        \* test.count()
    spark,            \* the session handle: "live" or "stopped"
    stopCount,        \* number of spark.stop() calls made by the script
    exitCode,         \* process exit status, NoExit while running
    trace,            \* calls made and lines printed by the script, in order
    crashedAt,        \* the step whose uncaught exception ended the run
    sRatings,         \* randomSplit: the ratings table being split
    sTrain,           \* randomSplit: positions of the rows placed in train
    sTest,            \* randomSplit: positions of the rows placed in test
    sDone,            \* randomSplit: whether the split has been taken
    rModel,           \* the fitted ALS model: users, items, predicted scores
    rMovies,          \* the movies table (movieId, title)
    rOp,              \* which recommendation code path ran: "none", "all",
                      \* "user", "inline" or "both" (helper, then inline block)
    rUser,            \* the user id asked for
    rN,               \* the n asked for
    rNested,          \* the nested table returned by the model
    rExploded,        \* the flattened table before the join
    rJoined,          \* the table the helper returns
    rRaised,          \* the exception the helper raised, "none" if it returned
    inlineJoined,     \* the table of the inline block of lines 169-173
    tErr,             \* tuning: what each hyperparameter value adds to the
                      \* validation RMSE of a trial (an input)
    tMetrics,         \* tuning: metrics[j], NoMetric until trial j reports
    tRunning,         \* tuning: the trials in flight on the thread pool
    tNext,            \* tuning: the next trial the pool hands out
    tFinished,        \* tuning: number of trials that reported a metric
    tBest             \* tuning: bestIndex, 0 until selected

mainVars == <<pc, ratingsFile, moviesFile, modelDirWritable, nRatings,
              trainCount, testCount, spark, stopCount, exitCode, trace,
              crashedAt>>

splitVars == <<sRatings, sTrain, sTest, sDone>>

recVars == <<rModel, rMovies, rOp, rUser, rN, rNested, rExploded, rJoined,
             rRaised, inlineJoined>>

tuneVars == <<tErr, tMetrics, tRunning, tNext, tFinished, tBest>>

vars == <<mainVars, splitVars, recVars, tuneVars>>

nonMainVars == <<splitVars, recVars, tuneVars>>

nonSplitVars == <<mainVars, recVars, tuneVars>>

nonRecVars == <<mainVars, splitVars, tuneVars>>

nonTuneVars == <<mainVars, splitVars, recVars>>

----------------------------------------------------------------------------
(* Bounds of the model *)

MaxRows == 3

\* the generator's draws are modelled as multiples of 1 / DrawResolution
DrawResolution == 5

MaxMovies == 2

MaxN == 2

\* largest amount one hyperparameter value adds to a trial's RMSE
MaxErr == 1

----------------------------------------------------------------------------
(* Generic helpers on sequences *)

Range(s) == {s[i] : i \in DOMAIN s}

Contains(s, e) == \E i \in DOMAIN s : s[i] = e

Count(s, e) == Cardinality({i \in DOMAIN s : s[i] = e})

----------------------------------------------------------------------------
(* The main script, lines 117-178 *)

FileStates == {"missing", "malformed", "ok"}

NoExit == -1

\* os.path.exists(path)
Exists(f) == f # "missing"

\* the condition of line 126, negated: both inputs are present
InputsPresentEither(r, m) == Exists(r) \/ Exists(m)

InputsPresent(r, m) == Exists(r) /\ Exists(m)

\* outcomes of a call into the external library; a forced failure is one the
\* inputs make certain (a missing column, an empty training table)
Outcomes(forced) == IF forced THEN {"raise"} ELSE {"ok", "raise"}

\* load_data, lines 34-37: select("userId", "movieId", "rating") and
\* select("movieId", "title") raise when the header read from a file lacks one
\* of the columns; a well-formed file loads
LoadOutcome(r, m) == IF r = "malformed" \/ m = "malformed" THEN "raise" ELSE "ok"

\* an exception raised outside the try block of lines 153-157 is retried
\* (a handler the script does not have)
AfterRaiseRetry(step) == step

\* an exception raised outside the try block of lines 153-157 is not caught:
\* the interpreter prints the traceback and the process ends
AfterRaise(step) == "crashed"

\* the statement reached after the try/except of lines 153-157 when the
\* except clause is missing
AfterSaveUncaught(outcome) == IF outcome = "raise" THEN "crashed" ELSE "recAll"

\* the statement reached after the try/except of lines 153-157: both the
\* try body and the except body fall through to line 159
AfterSave(outcome) == "recAll"

\* exit status of the interpreter for a position of the script
ExitOf(p) == CASE p = "done" -> 0
               [] p = "exited" -> 1
               [] p = "crashed" -> 1
               [] OTHER -> NoExit

Terminal == {"done", "exited", "crashed"}

MainInit ==
    /\ pc = "check"
    /\ ratingsFile \in FileStates
    /\ moviesFile \in FileStates
    /\ modelDirWritable \in BOOLEAN
    /\ nRatings \in 0..MaxRows
    /\ trainCount = 0
    /\ testCount = 0
    /\ spark = "live"
    /\ stopCount = 0
    /\ exitCode = NoExit
    /\ trace = <<>>
    /\ crashedAt = "none"

\* the main script is not running
MainIdle ==
    /\ pc = "idle"
    /\ ratingsFile = "ok"
    /\ moviesFile = "ok"
    /\ modelDirWritable = TRUE
    /\ nRatings = 0
    /\ trainCount = 0
    /\ testCount = 0
    /\ spark = "live"
    /\ stopCount = 0
    /\ exitCode = NoExit
    /\ trace = <<>>
    /\ crashedAt = "none"

\* a library step of the script: `calls` are logged, then on "ok" the
\* `prints` are logged and the script moves to `next`; on "raise" the
\* exception propagates out of the script
LibraryStep(step, calls, prints, next, outcome) ==
    LET to == IF outcome = "ok" THEN next ELSE AfterRaise(step) IN
    /\ pc' = to
    /\ trace' = IF outcome = "ok" THEN trace \o calls \o prints ELSE trace \o calls
    /\ crashedAt' = IF to = "crashed" THEN step ELSE crashedAt
    /\ exitCode' = ExitOf(to)

\* lines 126-129
CheckInputs ==
    /\ pc = "check"
    /\ IF ~InputsPresent(ratingsFile, moviesFile)
       THEN /\ trace' = trace \o <<"print_error", "spark_stop">>
            /\ spark' = "stopped"
            /\ stopCount' = stopCount + 1
            /\ pc' = "exited"
            /\ exitCode' = ExitOf("exited")
       ELSE /\ pc' = "load"
            /\ UNCHANGED <<trace, spark, stopCount, exitCode>>
    /\ UNCHANGED <<ratingsFile, moviesFile, modelDirWritable, nRatings,
                   trainCount, testCount, crashedAt>>
    /\ UNCHANGED nonMainVars

\* lines 131-133
LoadData ==
    /\ pc = "load"
    /\ LibraryStep("load", <<"load_data">>, <<"print_totals">>, "split",
                   LoadOutcome(ratingsFile, moviesFile))
    /\ UNCHANGED <<ratingsFile, moviesFile, modelDirWritable, nRatings,
                   trainCount, testCount, spark, stopCount>>
    /\ UNCHANGED nonMainVars

\* lines 136-137
SplitRatings ==
    /\ pc = "split"
    /\ \E o \in Outcomes(FALSE), k \in 0..nRatings :
         /\ LibraryStep("split", <<"randomSplit">>, <<"print_split_counts">>, "train", o)
         /\ trainCount' = IF o = "ok" THEN k ELSE trainCount
         /\ testCount' = IF o = "ok" THEN nRatings - k ELSE testCount
    /\ UNCHANGED <<ratingsFile, moviesFile, modelDirWritable, nRatings,
                   spark, stopCount>>
    /\ UNCHANGED nonMainVars

\* lines 140-145
Train ==
    /\ pc = "train"
    /\ \E o \in Outcomes(trainCount = 0) :
         LibraryStep("train", <<"print_training", "train_als_with_tuning">>,
                     <<"print_best_params">>, "eval", o)
    /\ UNCHANGED <<ratingsFile, moviesFile, modelDirWritable, nRatings,
                   trainCount, testCount, spark, stopCount>>
    /\ UNCHANGED nonMainVars

\* lines 148-149
Evaluate ==
    /\ pc = "eval"
    /\ \E o \in Outcomes(FALSE) :
         LibraryStep("eval", <<"evaluate_model">>, <<"print_test_rmse">>, "save", o)
    /\ UNCHANGED <<ratingsFile, moviesFile, modelDirWritable, nRatings,
                   trainCount, testCount, spark, stopCount>>
    /\ UNCHANGED nonMainVars

\* lines 153-157
SaveModel ==
    /\ pc = "save"
    /\ \E o \in Outcomes(~modelDirWritable) :
         LET to == AfterSave(o) IN
         /\ pc' = to
         /\ trace' = trace \o <<"save">> \o
                     (IF o = "ok" THEN <<"print_saved">>
                      ELSE IF to = "crashed" THEN <<>> ELSE <<"print_save_warning">>)
         /\ crashedAt' = IF to = "crashed" THEN "save" ELSE crashedAt
         /\ exitCode' = ExitOf(to)
    /\ UNCHANGED <<ratingsFile, moviesFile, modelDirWritable, nRatings,
                   trainCount, testCount, spark, stopCount>>
    /\ UNCHANGED nonMainVars

\* lines 160-162
RecommendAll ==
    /\ pc = "recAll"
    /\ \E o \in Outcomes(FALSE) :
         LibraryStep("recAll", <<"print_generating", "recommend_for_all_users">>,
                     <<"show_all_users">>, "demo", o)
    /\ UNCHANGED <<ratingsFile, moviesFile, modelDirWritable, nRatings,
                   trainCount, testCount, spark, stopCount>>
    /\ UNCHANGED nonMainVars

\* lines 165-175
DemoUser ==
    /\ pc = "demo"
    /\ \E o \in Outcomes(FALSE) :
         LibraryStep("demo", <<"recommendForUserSubset">>,
                     <<"show_demo_user">>, "stop", o)
    /\ UNCHANGED <<ratingsFile, moviesFile, modelDirWritable, nRatings,
                   trainCount, testCount, spark, stopCount>>
    /\ UNCHANGED nonMainVars

\* line 178
StopSpark ==
    /\ pc = "stop"
    /\ spark' = "stopped"
    /\ stopCount' = stopCount + 1
    /\ trace' = Append(trace, "spark_stop")
    /\ pc' = "done"
    /\ exitCode' = ExitOf("done")
    /\ UNCHANGED <<ratingsFile, moviesFile, modelDirWritable, nRatings,
                   trainCount, testCount, crashedAt>>
    /\ UNCHANGED nonMainVars

MainNext ==
    \/ CheckInputs
    \/ LoadData
    \/ SplitRatings
    \/ Train
    \/ Evaluate
    \/ SaveModel
    \/ RecommendAll
    \/ DemoUser
    \/ StopSpark

----------------------------------------------------------------------------
(* Tables *)

UserIds == {1, 2}

MovieIds == {10, 20}

\* the rating rows load_data can yield (userId, movieId, rating); a table is
\* a sequence of them and may repeat a row
RatingRows == {[userId |-> 1, movieId |-> 10, rating |-> 4],
               [userId |-> 1, movieId |-> 20, rating |-> 3],
               [userId |-> 2, movieId |-> 10, rating |-> 5]}

Titles == {"Alpha", "Beta"}

\* the movie rows load_data can yield (movieId, title); nothing keeps
\* movieId unique or the table complete
MovieRows == [movieId : MovieIds, title : Titles]

\* all sequences over S of length lo..hi
SeqsOf(S, lo, hi) == UNION {[1..k -> S] : k \in lo..hi}

\* the rows of a table as a bag
BagOf(s) == [e \in Range(s) |-> Count(s, e)]

\* the rows of table t at the positions listed in idx
RowsAt(t, idx) == [k \in 1..Len(idx) |-> t[idx[k]]]

----------------------------------------------------------------------------
(* ratings.randomSplit([0.8, 0.2], seed=42), line 136 *)

\* the weights, in tenths
Weights == <<8, 2>>

WeightSum == Weights[1] + Weights[2]

\* cumulative weights <<0, 8, 10>>: cell c is [Cum[c], Cum[c+1])
CumWeights == <<0, Weights[1], Weights[1] + Weights[2]>>

\* a cell sampler that also keeps a draw on its upper boundary
InCellClosed(x, lb, ub) ==
    /\ lb * DrawResolution <= x * WeightSum
    /\ x * WeightSum <= ub * DrawResolution

\* the seeded generator's draw for a row is x / DrawResolution in [0, 1);
\* the row is kept by the cell [lb, ub) iff lb <= draw < ub
InCell(x, lb, ub) ==
    /\ lb * DrawResolution <= x * WeightSum
    /\ x * WeightSum < ub * DrawResolution

\* positions of the rows, in order, whose draw falls in cell c; both cells
\* are sampled with the same seed over the same ordering, so a row has the
\* same draw in both
SampleCell(draws, c) ==
    LET keep(i) == InCell(draws[i], CumWeights[c], CumWeights[c + 1])
        F[i \in 0..Len(draws)] ==
            IF i = 0 THEN <<>>
            ELSE IF keep(i) THEN Append(F[i - 1], i) ELSE F[i - 1]
    IN F[Len(draws)]

SplitInit ==
    /\ sRatings \in SeqsOf(RatingRows, 0, MaxRows)
    /\ sTrain = <<>>
    /\ sTest = <<>>
    /\ sDone = FALSE

SplitIdle ==
    /\ sRatings = <<>>
    /\ sTrain = <<>>
    /\ sTest = <<>>
    /\ sDone = FALSE

\* line 136
RandomSplit ==
    /\ ~sDone
    /\ \E draws \in [1..Len(sRatings) -> 0..(DrawResolution - 1)] :
         /\ sTrain' = SampleCell(draws, 1)
         /\ sTest' = SampleCell(draws, 2)
    /\ sDone' = TRUE
    /\ UNCHANGED sRatings
    /\ UNCHANGED nonSplitVars

SplitNext == RandomSplit

----------------------------------------------------------------------------
(* The fitted model and the recommendation helpers, lines 82-115, 169-173 *)

ScoreValues == {1, 2}

\* a user id that occurs in no ratings row
UnknownUser == 1 + Cardinality(UserIds)

NullTitle == "NULL"

\* n of the call at line 161
AllUsersN == 5

\* default n of recommend_for_user, line 101
HelperDefaultN == 10

\* n of the inline call at line 169
InlineN == 10

Min(a, b) == IF a <= b THEN a ELSE b

\* ALS(...).fit(t): factors for the users and items that occur in t; the
\* predicted scores are whatever the solver learned
Fit(t) ==
    LET U == {t[i].userId : i \in DOMAIN t}
        I == {t[i].movieId : i \in DOMAIN t}
    IN {[users |-> U, items |-> I, score |-> f] : f \in [U \X I -> ScoreValues]}

\* the lists the model may return for user u: the min(n, #items) items of
\* highest predicted score, distinct, in descending order of score (ties in
\* any order), as structs (movieId, rating)
TopNLists(m, u, n) ==
    LET k == Min(n, Cardinality(m.items))
        ok(l) == /\ \A i, j \in 1..k : i # j => l[i] # l[j]
                 /\ \A i, j \in 1..k : i < j => m.score[<<u, l[i]>>] >= m.score[<<u, l[j]>>]
                 /\ \A i \in 1..k : \A x \in m.items \ Range(l) :
                        m.score[<<u, l[i]>>] >= m.score[<<u, x>>]
    IN {[i \in 1..k |-> [movieId |-> l[i], rating |-> m.score[<<u, l[i]>>]]] :
            l \in {l \in [1..k -> m.items] : ok(l)}}

\* the nested tables the model may return for the users U it knows: one row
\* per user, in any row order
RecommendFor(m, U, n) ==
    LET lists == UNION {TopNLists(m, u, n) : u \in U}
        rows == [userId : U, recommendations : lists]
    IN {t \in [1..Cardinality(U) -> rows] :
            /\ \A i, j \in DOMAIN t : i # j => t[i].userId # t[j].userId
            /\ \A i \in DOMAIN t : t[i].recommendations \in TopNLists(m, t[i].userId, n)}

\* model.recommendForAllUsers(n), line 88
RecommendForAllUsers(m, n) == RecommendFor(m, m.users, n)

\* a subset call that ignores the subset
RecommendForUserSubsetAll(m, subset, n) == RecommendFor(m, m.users, n)

\* model.recommendForUserSubset(df, n), lines 105 and 169: rows only for the
\* users of df that the model knows
RecommendForUserSubset(m, subset, n) == RecommendFor(m, m.users \cap subset, n)

\* an explode that loses the last struct of every list
ExplodeDropLast(nested) ==
    LET rowsOf(r) == [j \in 1..(Len(r.recommendations) - 1) |->
                        [userId |-> r.userId,
                         movieId |-> r.recommendations[j].movieId,
                         predicted_rating |-> r.recommendations[j].rating]]
        F[i \in 0..Len(nested)] ==
            IF i = 0 THEN <<>> ELSE F[i - 1] \o rowsOf(nested[i])
    IN F[Len(nested)]

\* lines 90-95 and 107-112: one row per struct of every user's list, in the
\* order of the list; a user with an empty list yields no row
Explode(nested) ==
    LET rowsOf(r) == [j \in 1..Len(r.recommendations) |->
                        [userId |-> r.userId,
                         movieId |-> r.recommendations[j].movieId,
                         predicted_rating |-> r.recommendations[j].rating]]
        F[i \in 0..Len(nested)] ==
            IF i = 0 THEN <<>> ELSE F[i - 1] \o rowsOf(nested[i])
    IN F[Len(nested)]

\* the movies rows whose movieId is that of the row
Matches(row, movies) == SelectSeq(movies, LAMBDA mv : mv.movieId = row.movieId)

WithTitle(row, title) ==
    [userId |-> row.userId, movieId |-> row.movieId, title |-> title,
     predicted_rating |-> row.predicted_rating]

\* an inner join: a row with no matching movie is lost
InnerJoinTitles(exploded, movies) ==
    LET rowsOf(r) == [j \in 1..Len(Matches(r, movies)) |->
                        WithTitle(r, Matches(r, movies)[j].title)]
        F[i \in 0..Len(exploded)] ==
            IF i = 0 THEN <<>> ELSE F[i - 1] \o rowsOf(exploded[i])
    IN F[Len(exploded)]

\* lines 97-98 and 113-114: exploded.join(movies_df, on="movieId",
\* how="left").select(...): one output row per matching movies row, and one
\* row with a null title when there is none
LeftJoinTitles(exploded, movies) ==
    LET rowsOf(r) ==
            IF Matches(r, movies) = <<>> THEN <<WithTitle(r, NullTitle)>>
            ELSE [j \in 1..Len(Matches(r, movies)) |->
                    WithTitle(r, Matches(r, movies)[j].title)]
        F[i \in 0..Len(exploded)] ==
            IF i = 0 THEN <<>> ELSE F[i - 1] \o rowsOf(exploded[i])
    IN F[Len(exploded)]

RecInit ==
    /\ \E t \in SeqsOf(RatingRows, 1, MaxRows) : rModel \in Fit(t)
    /\ rMovies \in SeqsOf(MovieRows, 0, MaxMovies)
    /\ rOp = "none"
    /\ rUser = 0
    /\ rN = 0
    /\ rNested = <<>>
    /\ rExploded = <<>>
    /\ rJoined = <<>>
    /\ rRaised = "none"
    /\ inlineJoined = <<>>

RecIdle ==
    /\ rModel = [users |-> {}, items |-> {}, score |-> <<>>]
    /\ rMovies = <<>>
    /\ rOp = "none"
    /\ rUser = 0
    /\ rN = 0
    /\ rNested = <<>>
    /\ rExploded = <<>>
    /\ rJoined = <<>>
    /\ rRaised = "none"
    /\ inlineJoined = <<>>

\* recommend_for_all_users(model, movies_df, n), lines 82-99
RecommendForAllUsersCall ==
    /\ rOp = "none"
    /\ \E n \in (1..MaxN) \cup {AllUsersN} :
       \E nested \in RecommendForAllUsers(rModel, n) :
         /\ rN' = n
         /\ rNested' = nested
         /\ rExploded' = Explode(nested)
         /\ rJoined' = LeftJoinTitles(Explode(nested), rMovies)
    /\ rOp' = "all"
    /\ UNCHANGED <<rModel, rMovies, rUser, rRaised, inlineJoined>>
    /\ UNCHANGED nonRecVars

\* recommend_for_user(model, movies_df, user_id, n), lines 101-115; the name
\* spark of line 105 is a module global bound only by line 118, so the call
\* raises NameError where the main block has not run
RecommendForUserCall ==
    /\ rOp = "none"
    /\ \E uid \in UserIds \cup {UnknownUser}, n \in (1..MaxN) \cup {HelperDefaultN},
          sparkBound \in BOOLEAN :
         /\ rUser' = uid
         /\ rN' = n
         /\ IF ~sparkBound
            THEN /\ rRaised' = "NameError"
                 /\ UNCHANGED <<rNested, rExploded, rJoined>>
            ELSE \E nested \in RecommendForUserSubset(rModel, {uid}, n) :
                   /\ rRaised' = "none"
                   /\ rNested' = nested
                   /\ rExploded' = Explode(nested)
                   /\ rJoined' = LeftJoinTitles(Explode(nested), rMovies)
    /\ rOp' = "user"
    /\ UNCHANGED <<rModel, rMovies, inlineJoined>>
    /\ UNCHANGED nonRecVars

\* the inline block of the main script, lines 169-173, for some_user_id; it
\* runs after line 118, with spark bound. It is taken on its own, or after the
\* helper was called with the same user id and n = 10
InlineDemo ==
    /\ \E uid \in UserIds :
         /\ \/ rOp = "none"
            \/ rOp = "user" /\ uid = rUser /\ rN = InlineN
         /\ rUser' = uid
         /\ \E nested \in RecommendForUserSubset(rModel, {uid}, InlineN) :
              inlineJoined' = LeftJoinTitles(Explode(nested), rMovies)
    /\ rOp' = IF rOp = "user" THEN "both" ELSE "inline"
    /\ UNCHANGED <<rModel, rMovies, rN, rNested, rExploded, rJoined, rRaised>>
    /\ UNCHANGED nonRecVars

RecNext ==
    \/ RecommendForAllUsersCall
    \/ RecommendForUserCall
    \/ InlineDemo

----------------------------------------------------------------------------
(* train_als_with_tuning, lines 50-74 *)

\* lines 59-61; regParam in hundredths
Ranks == <<8, 12, 16>>

RegParams == <<5, 10, 20>>

MaxIters == <<8, 12>>

NumModels == Len(Ranks) * Len(RegParams) * Len(MaxIters)

\* ParamGridBuilder().addGrid(...).addGrid(...).addGrid(...).build(): the
\* cross product of the three lists, the last list varying fastest
ParamGrid ==
    [j \in 1..NumModels |->
        [rank |-> Ranks[((j - 1) \div (Len(RegParams) * Len(MaxIters))) + 1],
         regParam |-> RegParams[(((j - 1) \div Len(MaxIters)) % Len(RegParams)) + 1],
         maxIter |-> MaxIters[((j - 1) % Len(MaxIters)) + 1]]]

\* parallelism=2, line 70
Parallelism == 2

NoMetric == -1

\* what the evaluator of line 64 returns for trial j on the validation
\* hold-out: the RMSE of the model fitted with ParamGrid[j]
ValidationRmse(err, j) ==
    err.rank[ParamGrid[j].rank] + err.regParam[ParamGrid[j].regParam]
        + err.maxIter[ParamGrid[j].maxIter]

\* the first index of the largest metric (an evaluator taken as
\* larger-is-better)
ArgMax(metrics) ==
    CHOOSE i \in DOMAIN metrics :
        /\ \A j \in DOMAIN metrics : metrics[i] >= metrics[j]
        /\ \A j \in DOMAIN metrics : j < i => metrics[j] < metrics[i]

\* bestIndex for the rmse evaluator of line 64, which is smaller-is-better:
\* the first index of the smallest metric
ArgMin(metrics) ==
    CHOOSE i \in DOMAIN metrics :
        /\ \A j \in DOMAIN metrics : metrics[i] <= metrics[j]
        /\ \A j \in DOMAIN metrics : j < i => metrics[j] > metrics[i]

TuneInit ==
    /\ tErr \in [rank : [Range(Ranks) -> 0..MaxErr],
                 regParam : [Range(RegParams) -> 0..MaxErr],
                 maxIter : [Range(MaxIters) -> 0..MaxErr]]
    /\ tMetrics = [j \in 1..NumModels |-> NoMetric]
    /\ tRunning = {}
    /\ tNext = 1
    /\ tFinished = 0
    /\ tBest = 0

TuneIdle ==
    /\ tErr = <<>>
    /\ tMetrics = <<>>
    /\ tRunning = {}
    /\ tNext = 1
    /\ tFinished = 0
    /\ tBest = 0

\* tvs.fit, line 72: a free thread of the pool takes the next trial
StartTrial ==
    /\ tBest = 0
    /\ tNext <= NumModels
    /\ Cardinality(tRunning) < Parallelism
    /\ tRunning' = tRunning \cup {tNext}
    /\ tNext' = tNext + 1
    /\ UNCHANGED <<tErr, tMetrics, tFinished, tBest>>
    /\ UNCHANGED nonTuneVars

\* tvs.fit, line 72: a trial in flight ends, in any order, and reports its
\* metric, which is stored at the trial's own index
FinishTrial ==
    /\ \E j \in tRunning :
         /\ tMetrics' = [tMetrics EXCEPT ![j] = ValidationRmse(tErr, j)]
         /\ tRunning' = tRunning \ {j}
    /\ tFinished' = tFinished + 1
    /\ UNCHANGED <<tErr, tNext, tBest>>
    /\ UNCHANGED nonTuneVars

\* lines 72-73: once every trial has reported, the best index is selected and
\* bestModel is the estimator fitted with ParamGrid[bestIndex]
SelectBest ==
    /\ tBest = 0
    /\ tNext > NumModels
    /\ tRunning = {}
    /\ tBest' = ArgMin(tMetrics)
    /\ UNCHANGED <<tErr, tMetrics, tRunning, tNext, tFinished>>
    /\ UNCHANGED nonTuneVars

TuneNext ==
    \/ StartTrial
    \/ FinishTrial
    \/ SelectBest

Init == MainInit /\ SplitIdle /\ RecIdle /\ TuneIdle

Next == MainNext

Spec == Init /\ [][Next]_vars

InitSplit == MainIdle /\ SplitInit /\ RecIdle /\ TuneIdle

SpecSplit == InitSplit /\ [][SplitNext]_vars

InitRec == MainIdle /\ SplitIdle /\ RecInit /\ TuneIdle

SpecRec == InitRec /\ [][RecNext]_vars

InitTune == MainIdle /\ SplitIdle /\ RecIdle /\ TuneInit

SpecTune == InitTune /\ [][TuneNext]_vars

----------------------------------------------------------------------------
(* Properties of the main script (specification Spec) *)

BothExist == Exists(ratingsFile) /\ Exists(moviesFile)

IsPrefix(a, b) == Len(a) <= Len(b) /\ a = SubSeq(b, 1, Len(a))

\* what the script does after the save step when nothing else fails
ReportSteps == <<"print_generating", "recommend_for_all_users", "show_all_users",
                 "recommendForUserSubset", "show_demo_user", "spark_stop">>

SavePos == CHOOSE i \in DOMAIN trace : trace[i] = "save"

AfterSavePrint == SubSeq(trace, SavePos + 2, Len(trace))

\* C1 (as stated): a run with a missing input file prints the remediation
\* message, exits with code 1 and never calls load_data, randomSplit or
\* train_als_with_tuning; a run with both files present always calls
\* load_data and reaches the call to train_als_with_tuning.
C1_Original ==
    /\ ~BothExist =>
          /\ ~Contains(trace, "load_data")
          /\ ~Contains(trace, "randomSplit")
          /\ ~Contains(trace, "train_als_with_tuning")
          /\ pc \in Terminal =>
                pc = "exited" /\ exitCode = 1 /\ Contains(trace, "print_error")
    /\ (BothExist /\ pc \in Terminal) =>
          /\ Contains(trace, "load_data")
          /\ Contains(trace, "train_als_with_tuning")

\* C1 (amended): a run with a missing input file prints the remediation
\* message, exits with code 1 and never calls load_data, randomSplit or
\* train_als_with_tuning; a run with both files present never takes the
\* early exit, always calls load_data, and reaches the call to
\* train_als_with_tuning unless load_data, a row count or randomSplit raises,
\* in which case it ends there by the uncaught exception; the script is never
\* stuck before it terminates.
C1_Amended ==
    /\ ~BothExist =>
          /\ ~Contains(trace, "load_data")
          /\ ~Contains(trace, "randomSplit")
          /\ ~Contains(trace, "train_als_with_tuning")
          /\ pc \in Terminal =>
                pc = "exited" /\ exitCode = 1 /\ Contains(trace, "print_error")
    /\ BothExist => pc # "exited" /\ ~Contains(trace, "print_error")
    /\ (BothExist /\ pc \in Terminal) =>
          /\ Contains(trace, "load_data")
          /\ \/ Contains(trace, "train_als_with_tuning")
             \/ pc = "crashed" /\ crashedAt \in {"load", "split"}
    /\ pc \notin Terminal => ENABLED MainNext

\* C1 witness: both files exist and the run has called train_als_with_tuning
C1_Witness ==
    /\ BothExist
    /\ Contains(trace, "load_data")
    /\ Contains(trace, "train_als_with_tuning")

\* C2 (as stated): on every terminating path, the early exit, normal
\* completion and an uncaught exception alike, the session has been stopped
\* exactly once when the process ends.
C2_StoppedExactlyOnce ==
    pc \in Terminal => stopCount = 1 /\ spark = "stopped"

\* C3: a failing model save does not abort the process: the warning is
\* printed right after the save attempt, the script goes on to line 159, and
\* what follows (all-users preview, demonstration-user report, session stop,
\* in that order) is the same sequence as after a successful save.
C3_SaveFailureContinues ==
    /\ crashedAt # "save"
    /\ Contains(trace, "save") =>
          /\ Count(trace, "save") = 1
          /\ Len(trace) > SavePos
          /\ trace[SavePos + 1] \in {"print_saved", "print_save_warning"}
          /\ ~modelDirWritable => trace[SavePos + 1] = "print_save_warning"
          /\ IsPrefix(AfterSavePrint, ReportSteps)
          /\ AfterSavePrint = <<>> => pc = "recAll" /\ exitCode = NoExit
          /\ pc = "done" => AfterSavePrint = ReportSteps
          /\ pc \notin Terminal => ENABLED MainNext

\* C3 witness: the save failed and the run completed normally
C3_Witness ==
    /\ pc = "done"
    /\ Contains(trace, "print_save_warning")
    /\ exitCode = 0
    /\ stopCount = 1

\* C8: an exception of train_als_with_tuning or evaluate_model is caught
\* nowhere: the run ends there with a non-zero exit status, the call is not
\* made again, the save is not attempted and no recommendation is printed.
C8_FitEvalFailureAborts ==
    /\ Count(trace, "train_als_with_tuning") <= 1
    /\ Count(trace, "evaluate_model") <= 1
    /\ (pc = "train" /\ trainCount = 0) => ~(ENABLED (Train /\ pc' # "crashed"))
    /\ crashedAt \in {"train", "eval"} =>
          /\ pc = "crashed"
          /\ exitCode \notin {0, NoExit}
          /\ ~Contains(trace, "save")
          /\ ~Contains(trace, "print_saved")
          /\ ~Contains(trace, "recommend_for_all_users")
          /\ ~Contains(trace, "show_all_users")
          /\ ~Contains(trace, "recommendForUserSubset")
          /\ ~Contains(trace, "show_demo_user")
          /\ ~(ENABLED MainNext)
    /\ Contains(trace, "save") => Contains(trace, "print_test_rmse")
    /\ Contains(trace, "evaluate_model") => Contains(trace, "print_best_params")

\* C8 witness: the training table is empty and the fit raised
C8_Witness ==
    /\ pc = "crashed"
    /\ crashedAt = "train"
    /\ trainCount = 0
    /\ Contains(trace, "train_als_with_tuning")

----------------------------------------------------------------------------
(* Properties of the split (specification SpecSplit) *)

\* C7: the split is a partition of the ratings rows: every row position is in
\* exactly one of train and test, and as bags of rows train plus test is the
\* ratings table, also when the table repeats a row.
C7_SplitIsPartition ==
    sDone =>
       /\ Range(sTrain) \cap Range(sTest) = {}
       /\ Range(sTrain) \cup Range(sTest) = DOMAIN sRatings
       /\ Cardinality(Range(sTrain)) = Len(sTrain)
       /\ Cardinality(Range(sTest)) = Len(sTest)
       /\ BagOf(RowsAt(sRatings, sTrain)) (+) BagOf(RowsAt(sRatings, sTest))
             = BagOf(sRatings)

\* C7 witness: two identical rows, one placed in train and the other in test
C7_Witness ==
    /\ sDone
    /\ \E i \in Range(sTrain), j \in Range(sTest) : sRatings[i] = sRatings[j]

----------------------------------------------------------------------------
(* Properties of the recommendation helpers (specification SpecRec) *)

Returned == rOp \in {"all", "user"} /\ rRaised = "none"

\* number of movies rows with movie id m
TitleRows(m) == Cardinality({i \in DOMAIN rMovies : rMovies[i].movieId = m})

\* the titles the movies table holds for movie id m
TitlesOf(m) == {rMovies[i].title : i \in {i \in DOMAIN rMovies : rMovies[i].movieId = m}}

\* the rows of the joined table that come from the flattened row e
JoinedFrom(e) ==
    {i \in DOMAIN rJoined :
        /\ rJoined[i].userId = e.userId
        /\ rJoined[i].movieId = e.movieId
        /\ rJoined[i].predicted_rating = e.predicted_rating}

\* C4 (as stated): after the left join the table has exactly as many rows as
\* the flattened table, for every movies table, and an unmatched movie id
\* yields one row with a null title.
C4_Original ==
    Returned =>
       /\ Len(rJoined) = Len(rExploded)
       /\ \A i \in DOMAIN rExploded :
             TitleRows(rExploded[i].movieId) = 0 =>
                \E j \in DOMAIN rJoined :
                    /\ rJoined[j].movieId = rExploded[i].movieId
                    /\ rJoined[j].title = NullTitle

\* C4 (amended): the left join drops no recommendation row: every flattened
\* row yields one joined row per movies row carrying its movie id, and exactly
\* one row with a null title when there is none, and every joined row comes
\* from a flattened row; so the row counts are equal whenever no recommended
\* movie id occurs twice in the movies table, and the joined table is longer
\* otherwise.
C4_Amended ==
    Returned =>
       /\ Len(rJoined) >= Len(rExploded)
       /\ \A i \in DOMAIN rExploded :
             LET e == rExploded[i]
                 k == TitleRows(e.movieId)
             IN /\ Cardinality(JoinedFrom(e)) = IF k = 0 THEN 1 ELSE k
                /\ k = 0 => \A j \in JoinedFrom(e) : rJoined[j].title = NullTitle
                /\ k > 0 => {rJoined[j].title : j \in JoinedFrom(e)} = TitlesOf(e.movieId)
       /\ \A j \in DOMAIN rJoined : \E i \in DOMAIN rExploded : j \in JoinedFrom(rExploded[i])
       /\ (\A i \in DOMAIN rExploded : TitleRows(rExploded[i].movieId) <= 1)
             => Len(rJoined) = Len(rExploded)
       /\ (\E i \in DOMAIN rExploded : TitleRows(rExploded[i].movieId) > 1)
             => Len(rJoined) > Len(rExploded)

\* C4 witness: one recommended movie has no movies row and another has two
C4_Witness ==
    /\ Returned
    /\ \E i \in DOMAIN rExploded : TitleRows(rExploded[i].movieId) = 0
    /\ \E i \in DOMAIN rExploded : TitleRows(rExploded[i].movieId) = 2
    /\ \E j \in DOMAIN rJoined : rJoined[j].title = NullTitle

\* the rows of the flattened table for user u, in table order
ExplodedOf(u) == SelectSeq(rExploded, LAMBDA e : e.userId = u)

\* C5: for every user row of the nested table with a list of k structs, the
\* flattened table of recommend_for_all_users holds exactly k rows of that
\* user, the j-th with the movie id and rating of the j-th struct, the movie
\* ids pairwise distinct and the predicted ratings in descending order; rows
\* of no other user appear.
C5_Flattening ==
    rOp = "all" =>
       /\ \A i \in DOMAIN rNested :
             LET u == rNested[i].userId
                 recs == rNested[i].recommendations
                 rows == ExplodedOf(u)
             IN /\ Len(rows) = Len(recs)
                /\ \A j \in DOMAIN recs :
                      /\ rows[j].movieId = recs[j].movieId
                      /\ rows[j].predicted_rating = recs[j].rating
                /\ \A a, b \in DOMAIN rows : a # b => rows[a].movieId # rows[b].movieId
                /\ \A a, b \in DOMAIN rows :
                      a < b => rows[a].predicted_rating >= rows[b].predicted_rating
       /\ \A j \in DOMAIN rExploded :
             \E i \in DOMAIN rNested : rNested[i].userId = rExploded[j].userId

\* C5 witness: two users, one of them with two items of different score
C5_Witness ==
    /\ rOp = "all"
    /\ Len(rNested) = 2
    /\ \E i \in DOMAIN rNested :
          /\ Len(rNested[i].recommendations) = 2
          /\ rNested[i].recommendations[1].rating > rNested[i].recommendations[2].rating
    /\ Len(rExploded) = 4

JoinedMovieIds == {rJoined[i].movieId : i \in DOMAIN rJoined}

C10_HelperEqualsInline ==
    rOp = "both" =>
       /\ rRaised = "none"
       /\ BagOf(rJoined) = BagOf(inlineJoined)

----------------------------------------------------------------------------
(* Properties of the hyperparameter search (specification SpecTune) *)

\* C9: the search covers exactly the 18 combinations of rank in {8, 12, 16},
\* regParam in {0.05, 0.1, 0.2} and maxIter in {8, 12}, each evaluated once,
\* never more than 2 trials in flight, and the combination selected has a
\* validation RMSE no larger than that of any other combination, whatever the
\* order in which the trials end.
C9_TuningSelectsMinimum ==
    /\ NumModels = 18
    /\ {ParamGrid[j] : j \in 1..NumModels}
          = [rank : {8, 12, 16}, regParam : {5, 10, 20}, maxIter : {8, 12}]
    /\ Cardinality(tRunning) <= 2
    /\ tFinished = Cardinality({j \in 1..NumModels : tMetrics[j] # NoMetric})
    /\ tFinished + Cardinality(tRunning) = tNext - 1
    /\ \A j \in 1..NumModels :
          tMetrics[j] # NoMetric => tMetrics[j] = ValidationRmse(tErr, j)
    /\ tBest # 0 =>
          /\ tBest \in 1..NumModels
          /\ tFinished = 18
          /\ tRunning = {}
          /\ \A j \in 1..NumModels : tMetrics[j] # NoMetric
          /\ \A j \in 1..NumModels :
                ValidationRmse(tErr, tBest) <= ValidationRmse(tErr, j)

\* C9 witness: the search ended and selected a combination other than the
\* first, strictly better than an earlier one
C9_Witness ==
    /\ tBest > 1
    /\ \E j \in 1..NumModels : j < tBest /\ tMetrics[j] > tMetrics[tBest]
    /\ \E j \in 1..NumModels : j # tBest /\ tMetrics[j] = tMetrics[tBest]

====
